---- MODULE Spec2Model ----
(***************************************************************************)
(* Model of the OpenAPI schema merge (merge_schemas.py) and repair         *)
(* (fix_merged_schema.py) scripts.                                         *)
(*                                                                         *)
(* A document is a tree of Python values as yaml.safe_load returns them:   *)
(* dict, list, str, bool and None.  Every node carries a tag t so that the *)
(* isinstance tests of the code can be written down.  A dict is a function *)
(* from its keys; two dicts are equal when they hold the same keys and     *)
(* values, which is Python's == on dicts.  Strings are TLA+ strings and    *)
(* the string methods of the code (replace, startswith, in) are computed   *)
(* character by character.                                                 *)
(***************************************************************************)
EXTENDS Integers, Sequences, FiniteSets, TLC

VARIABLES official, comprehensive, pathOrder, official0, log,
          path, pathObj, path0, pathObj0

vars == <<official, comprehensive, pathOrder, official0, log,
          path, pathObj, path0, pathObj0>>

----------------------------------------------------------------------------
(* Python values *)

None == [t |-> "null"]

Bool(b) == [t |-> "bool", b |-> b]

Str(s) == [t |-> "str", s |-> s]

List(items) == [t |-> "list", items |-> items]

Dict(kv) == [t |-> "dict", kv |-> kv]

EmptyKV == [k \in {} |-> None]

IsDict(obj) == obj.t = "dict"

IsList(obj) == obj.t = "list"

IsStr(obj) == obj.t = "str"

\* key in obj
Has(obj, key) == IsDict(obj) /\ key \in DOMAIN obj.kv

\* obj.get(key, {})
Get(obj, key) == IF Has(obj, key) THEN obj.kv[key] ELSE Dict(EmptyKV)

\* obj[key] = value
SetItem(obj, key, value) ==
  Dict([k \in DOMAIN obj.kv \cup {key} |-> IF k = key THEN value ELSE obj.kv[k]])

\* del obj[key] for every key of keys
DelItems(obj, keys) == Dict([k \in DOMAIN obj.kv \ keys |-> obj.kv[k]])

----------------------------------------------------------------------------
(* Python string methods *)

\* s.startswith(prefix)
StartsWith(s, prefix) ==
  Len(s) >= Len(prefix) /\ SubSeq(s, 1, Len(prefix)) = prefix

\* sub in s
Contains(s, sub) ==
  \E i \in 1..(Len(s) - Len(sub) + 1) : SubSeq(s, i, i + Len(sub) - 1) = sub

\* s.replace(old, new): leftmost non-overlapping occurrences, old non-empty
RECURSIVE Replace(_, _, _)
Replace(s, old, new) ==
  IF Len(s) < Len(old) THEN s
  ELSE IF SubSeq(s, 1, Len(old)) = old
       THEN new \o Replace(SubSeq(s, Len(old) + 1, Len(s)), old, new)
       ELSE SubSeq(s, 1, 1) \o Replace(SubSeq(s, 2, Len(s)), old, new)

\* for old, new in table.items(): s = s.replace(old, new)
RECURSIVE ReplaceEach(_, _)
ReplaceEach(s, table) ==
  IF table = <<>> THEN s
  ELSE ReplaceEach(Replace(s, table[1][1], table[1][2]), Tail(table))

----------------------------------------------------------------------------
(* merge_schemas.py *)

param_map ==
  << <<"OrgId", "orgIdPathParam">>,
     <<"WorkspaceId", "workspaceIdPathParam">>,
     <<"DocId", "docIdPathParam">>,
     <<"TableId", "tableIdPathParam">>,
     <<"AttachmentId", "attachmentIdPathParam">>,
     <<"UserId", "userIdPathParam">> >>

\* the loop over param_map on one $ref string:
\*   if f'parameters/{old_name}' in value: value = value.replace(...)
RECURSIVE convert_ref(_, _)
convert_ref(value, table) ==
  IF table = <<>> THEN value
  ELSE LET old == "parameters/" \o table[1][1]
           new == "parameters/" \o table[1][2]
       IN convert_ref(IF Contains(value, old) THEN Replace(value, old, new)
                      ELSE value,
                      Tail(table))

RECURSIVE convert_param_refs(_)
convert_param_refs(obj) ==
  IF IsDict(obj)
  THEN Dict([key \in DOMAIN obj.kv |->
               LET value == obj.kv[key]
               IN IF key = "$ref" /\ IsStr(value)
                  THEN convert_param_refs(Str(convert_ref(value.s, param_map)))
                  ELSE convert_param_refs(value)])
  ELSE IF IsList(obj)
  THEN List([i \in 1..Len(obj.items) |-> convert_param_refs(obj.items[i])])
  ELSE obj

param_name_map ==
  [oid |-> "orgId", wid |-> "workspaceId", docId |-> "docId",
   tableId |-> "tableId", attId |-> "attachmentId", uid |-> "userId",
   said |-> "serviceAccountId", vsId |-> "formId", colId |-> "colId",
   webhookId |-> "webhookId", proposalId |-> "proposalId"]

\* one element of a 'parameters' list; a name is a string or another scalar
\* (the lookup in param_name_map raises on a list or a dict)
convert_param(param) ==
  IF Has(param, "name") /\ IsStr(param.kv["name"])
     /\ param.kv["name"].s \in DOMAIN param_name_map
  THEN SetItem(param, "name", Str(param_name_map[param.kv["name"].s]))
  ELSE param

RECURSIVE convert_param_names_in_path(_)
convert_param_names_in_path(path_obj) ==
  IF IsDict(path_obj)
  THEN Dict([key \in DOMAIN path_obj.kv |->
               LET value == path_obj.kv[key]
               IN IF key = "parameters" /\ IsList(value)
                  THEN convert_param_names_in_path(
                         List([i \in 1..Len(value.items) |->
                                 convert_param(value.items[i])]))
                  ELSE convert_param_names_in_path(value)])
  ELSE IF IsList(path_obj)
  THEN List([i \in 1..Len(path_obj.items) |->
               convert_param_names_in_path(path_obj.items[i])])
  ELSE path_obj

param_replacements ==
  << <<"{oid}", "{orgId}">>,
     <<"{wid}", "{workspaceId}">>,
     <<"{attId}", "{attachmentId}">>,
     <<"{uid}", "{userId}">>,
     <<"{said}", "{serviceAccountId}">>,
     <<"{vsId}", "{formId}">> >>

normalize_path(p) ==
  ReplaceEach(Replace(Replace(p, "/api/", "/"), "/api", "/"), param_replacements)

\* get_paths_from_schema
get_paths_from_schema(schema) ==
  IF Has(schema, "paths") THEN DOMAIN schema.kv["paths"].kv ELSE {}

\* missing_paths without the test 'normalized_path not in official_paths'
RECURSIVE missing_paths_unchecked(_, _, _)
missing_paths_unchecked(official_paths, paths, order) ==
  IF order = <<>> THEN EmptyKV
  ELSE LET n == Len(order)
           rest == missing_paths_unchecked(official_paths, paths, SubSeq(order, 1, n - 1))
           normalized_path == normalize_path(order[n])
           converted_obj ==
             convert_param_refs(convert_param_names_in_path(paths[order[n]]))
       IN [k \in DOMAIN rest \cup {normalized_path} |->
             IF k = normalized_path THEN converted_obj ELSE rest[k]]

\* the loop that fills missing_paths; order is the key order of
\* comprehensive['paths'], a later path with the same normalized key
\* replaces an earlier one
RECURSIVE missing_paths(_, _, _)
missing_paths(official_paths, paths, order) ==
  IF order = <<>> THEN EmptyKV
  ELSE LET n == Len(order)
           rest == missing_paths(official_paths, paths, SubSeq(order, 1, n - 1))
           normalized_path == normalize_path(order[n])
           converted_obj ==
             convert_param_refs(convert_param_names_in_path(paths[order[n]]))
       IN IF normalized_path \notin official_paths
          THEN [k \in DOMAIN rest \cup {normalized_path} |->
                  IF k = normalized_path THEN converted_obj ELSE rest[k]]
          ELSE rest

\* add_missing_paths that assigns official['paths'] = missing_paths
add_missing_paths_replace(schema, missing) == SetItem(schema, "paths", Dict(missing))

\* for path, path_obj in missing_paths.items(): official['paths'][path] = path_obj
add_missing_paths(schema, missing) ==
  IF DOMAIN missing = {} THEN schema
  ELSE LET old == schema.kv["paths"].kv
       IN SetItem(schema, "paths",
                  Dict([k \in DOMAIN old \cup DOMAIN missing |->
                          IF k \in DOMAIN missing THEN missing[k] ELSE old[k]]))

Tag(name, description) ==
  Dict([name |-> Str(name), description |-> Str(description)])

new_tags ==
  << Tag("admin", "Installation administration endpoints"),
     Tag("profile", "User profile management"),
     Tag("sessions", "Session management"),
     Tag("service-accounts", "Service account management for API access"),
     Tag("templates", "Template documents"),
     Tag("snapshots", "Document version snapshots"),
     Tag("proposals", "Document change proposals"),
     Tag("forms", "Grist forms"),
     Tag("timing", "Document timing and performance"),
     Tag("ai", "AI assistant features") >>

\* the tags of new_tags, in order, whose name is not in existing_tags
RECURSIVE tags_to_add(_, _)
tags_to_add(tags, existing_tags) ==
  IF tags = <<>> THEN <<>>
  ELSE (IF Head(tags).kv["name"] \notin existing_tags THEN <<Head(tags)>> ELSE <<>>)
       \o tags_to_add(Tail(tags), existing_tags)

add_missing_tags(schema) ==
  LET old == IF Has(schema, "tags") THEN schema.kv["tags"].items ELSE <<>>
      existing_tags == {old[i].kv["name"] : i \in 1..Len(old)}
      added == tags_to_add(new_tags, existing_tags)
  IN IF added = <<>> THEN schema ELSE SetItem(schema, "tags", List(old \o added))

\* main of merge_schemas.py: the document written to openapi-merged.yaml
merge_main(schema, source, order) ==
  add_missing_tags(
    add_missing_paths(schema,
      missing_paths(get_paths_from_schema(schema), source.kv["paths"].kv, order)))

----------------------------------------------------------------------------
(* fix_merged_schema.py *)

\* Fix 1: server variables
fix_servers(schema) ==
  IF Has(schema, "servers") /\ Len(schema.kv["servers"].items) > 0
  THEN LET servers == schema.kv["servers"].items
           first == SetItem(SetItem(servers[1], "url",
                                    Str("https://{subdomain}.getgrist.com/api")),
                            "description", Str("Grist API server"))
       IN SetItem(schema, "servers",
                  List([i \in 1..Len(servers) |-> IF i = 1 THEN first ELSE servers[i]]))
  ELSE schema

\* Fix 2: responses of /docs/{docId}/states/remove
fix_responses(schema) ==
  LET paths == Get(schema, "paths")
      key == "/docs/{docId}/states/remove"
  IN IF Has(paths, key) /\ Has(paths.kv[key], "post")
     THEN LET endpoint == paths.kv[key]
              post == SetItem(endpoint.kv["post"], "responses",
                        Dict("200" :> Dict("description" :> Str("Success"))))
          IN SetItem(schema, "paths",
                     SetItem(paths, key, SetItem(endpoint, "post", post)))
     ELSE schema

\* remove_scim that looks for the prefix in the other path convention
remove_scim_api(schema) ==
  LET paths == Get(schema, "paths")
      scim_paths == {k \in DOMAIN paths.kv : StartsWith(k, "/api/scim/")}
      s1 == IF scim_paths = {} THEN schema
            ELSE SetItem(schema, "paths", DelItems(paths, scim_paths))
  IN IF Has(s1, "tags")
     THEN SetItem(s1, "tags",
            List(SelectSeq(s1.kv["tags"].items,
                           LAMBDA tag : ~(Has(tag, "name") /\ tag.kv["name"] = Str("scim")))))
     ELSE s1

\* Fix 3 and Fix 4: SCIM endpoints and SCIM tag
remove_scim(schema) ==
  LET paths == Get(schema, "paths")
      scim_paths == {k \in DOMAIN paths.kv : StartsWith(k, "/scim/")}
      s1 == IF scim_paths = {} THEN schema
            ELSE SetItem(schema, "paths", DelItems(paths, scim_paths))
  IN IF Has(s1, "tags")
     THEN SetItem(s1, "tags",
            List(SelectSeq(s1.kv["tags"].items,
                           LAMBDA tag : ~(Has(tag, "name") /\ tag.kv["name"] = Str("scim")))))
     ELSE s1

\* fix_null_enums that recurses only when the dict itself needed no repair
RECURSIVE fix_null_enums_shallow(_)
fix_null_enums_shallow(obj) ==
  IF IsDict(obj)
  THEN LET hasNull == /\ Has(obj, "enum")
                      /\ IsList(obj.kv["enum"])
                      /\ \E i \in 1..Len(obj.kv["enum"].items) :
                           obj.kv["enum"].items[i] = None
           filtered == SetItem(obj, "enum",
                         List(SelectSeq(obj.kv["enum"].items, LAMBDA v : v # None)))
       IN IF hasNull
          THEN IF Has(obj, "nullable") THEN filtered
               ELSE SetItem(filtered, "nullable", Bool(TRUE))
          ELSE Dict([key \in DOMAIN obj.kv |-> fix_null_enums_shallow(obj.kv[key])])
  ELSE IF IsList(obj)
  THEN List([i \in 1..Len(obj.items) |-> fix_null_enums_shallow(obj.items[i])])
  ELSE obj

\* Fix 5: null in enum
RECURSIVE fix_null_enums(_)
fix_null_enums(obj) ==
  IF IsDict(obj)
  THEN LET hasNull == /\ Has(obj, "enum")
                      /\ IsList(obj.kv["enum"])
                      /\ \E i \in 1..Len(obj.kv["enum"].items) :
                           obj.kv["enum"].items[i] = None
           filtered == SetItem(obj, "enum",
                         List(SelectSeq(obj.kv["enum"].items, LAMBDA v : v # None)))
           fixed == IF ~hasNull THEN obj
                    ELSE IF Has(obj, "nullable") THEN filtered
                    ELSE SetItem(filtered, "nullable", Bool(TRUE))
       IN Dict([key \in DOMAIN fixed.kv |-> fix_null_enums(fixed.kv[key])])
  ELSE IF IsList(obj)
  THEN List([i \in 1..Len(obj.items) |-> fix_null_enums(obj.items[i])])
  ELSE obj

\* the number of dicts of obj whose operationId is id
RECURSIVE OperationCount(_, _)
RECURSIVE CountInValues(_, _, _)
RECURSIVE CountInItems(_, _)

OperationCount(obj, id) ==
  IF IsDict(obj)
  THEN (IF Has(obj, "operationId") /\ obj.kv["operationId"] = Str(id) THEN 1 ELSE 0)
       + CountInValues(obj.kv, DOMAIN obj.kv, id)
  ELSE IF IsList(obj) THEN CountInItems(obj.items, id)
  ELSE 0

CountInValues(kv, keys, id) ==
  IF keys = {} THEN 0
  ELSE LET key == CHOOSE k \in keys : TRUE
       IN OperationCount(kv[key], id) + CountInValues(kv, keys \ {key}, id)

CountInItems(items, id) ==
  IF items = <<>> THEN 0
  ELSE OperationCount(Head(items), id) + CountInItems(Tail(items), id)

\* fix_operation_id that renames only while another operation has the same id
fix_operation_id_if_duplicate(schema) ==
  LET paths == Get(schema, "paths")
  IN IF /\ Has(paths, "/docs") /\ Has(paths.kv["/docs"], "post")
        /\ Has(paths.kv["/docs"].kv["post"], "operationId")
        /\ IsStr(paths.kv["/docs"].kv["post"].kv["operationId"])
        /\ OperationCount(schema, paths.kv["/docs"].kv["post"].kv["operationId"].s) > 1
     THEN LET endpoint == paths.kv["/docs"]
              post == SetItem(endpoint.kv["post"], "operationId",
                              Str("createOrImportDoc"))
          IN SetItem(schema, "paths",
                     SetItem(paths, "/docs", SetItem(endpoint, "post", post)))
     ELSE schema

\* Fix 6: duplicate operationId
fix_operation_id(schema) ==
  LET paths == Get(schema, "paths")
  IN IF Has(paths, "/docs") /\ Has(paths.kv["/docs"], "post")
     THEN LET endpoint == paths.kv["/docs"]
              post == SetItem(endpoint.kv["post"], "operationId",
                              Str("createOrImportDoc"))
          IN SetItem(schema, "paths",
                     SetItem(paths, "/docs", SetItem(endpoint, "post", post)))
     ELSE schema

RECURSIVE find_schema_refs(_)
find_schema_refs(obj) ==
  IF IsDict(obj)
  THEN UNION {LET value == obj.kv[key]
              IN IF key = "$ref" /\ IsStr(value)
                    /\ StartsWith(value.s, "#/components/schemas/")
                 THEN {Replace(value.s, "#/components/schemas/", "")}
                 ELSE find_schema_refs(value) : key \in DOMAIN obj.kv}
  ELSE IF IsList(obj)
  THEN UNION {find_schema_refs(obj.items[i]) : i \in 1..Len(obj.items)}
  ELSE {}

\* Fix 7: missing schemas
copy_missing_schemas(schema, source) ==
  LET have == Get(Get(schema, "components"), "schemas")
      from == Get(Get(source, "components"), "schemas")
      missing_schemas == {n \in find_schema_refs(Get(schema, "paths")) :
                            n \notin DOMAIN have.kv /\ n \in DOMAIN from.kv}
  IN IF missing_schemas = {} THEN schema
     ELSE SetItem(schema, "components",
            SetItem(Get(schema, "components"), "schemas",
              Dict([n \in DOMAIN have.kv \cup missing_schemas |->
                      IF n \in missing_schemas THEN from.kv[n] ELSE have.kv[n]])))

RECURSIVE find_param_refs(_)
find_param_refs(obj) ==
  IF IsDict(obj)
  THEN UNION {LET value == obj.kv[key]
              IN IF key = "$ref" /\ IsStr(value)
                    /\ StartsWith(value.s, "#/components/parameters/")
                 THEN {Replace(value.s, "#/components/parameters/", "")}
                 ELSE find_param_refs(value) : key \in DOMAIN obj.kv}
  ELSE IF IsList(obj)
  THEN UNION {find_param_refs(obj.items[i]) : i \in 1..Len(obj.items)}
  ELSE {}

\* Fix 8: missing parameters
copy_missing_params(schema, source) ==
  LET have == Get(Get(schema, "components"), "parameters")
      from == Get(Get(source, "components"), "parameters")
      missing_params == {n \in find_param_refs(Get(schema, "paths")) :
                           n \notin DOMAIN have.kv /\ n \in DOMAIN from.kv}
  IN IF missing_params = {} THEN schema
     ELSE SetItem(schema, "components",
            SetItem(Get(schema, "components"), "parameters",
              Dict([n \in DOMAIN have.kv \cup missing_params |->
                      IF n \in missing_params THEN from.kv[n] ELSE have.kv[n]])))

\* Fix 1 to Fix 6, in the order of the code
fix_repairs(schema) ==
  fix_operation_id(fix_null_enums(remove_scim(fix_responses(fix_servers(schema)))))

\* Fix 7 and Fix 8
copy_missing_components(schema, source) ==
  copy_missing_params(copy_missing_schemas(schema, source), source)

\* main of fix_merged_schema.py: the document written to openapi-merged.yaml
fix_main(schema, source) == copy_missing_components(fix_repairs(schema), source)

----------------------------------------------------------------------------
(* Documents the two scripts are run on *)

\* largest number of paths of a document
MaxPaths == 2

Ref(pointer) == Dict("$ref" :> Str(pointer))

Operation(id, rest) == Dict(("operationId" :> Str(id)) @@ rest)

OkResponse(schema) ==
  "responses" :> Dict("200" :> Dict(("description" :> Str("OK")) @@ ("schema" :> schema)))

NameParam(name) == Dict([name |-> Str(name), in |-> Str("path")])

PathPool ==
  ("/orgs" :>
     Dict("get" :> Operation("listOrgs", OkResponse(Ref("#/components/schemas/Org")))))
  @@
  ("/api/orgs" :>
     Dict("get" :> Operation("listOrgs",
            "parameters" :> List(<<Dict(("name" :> Str("sort")) @@
                                        ("enum" :> List(<<Str("name"), None>>)))>>))))
  @@
  ("/api/orgs/{oid}" :>
     Dict(("parameters" :> List(<<Ref("#/components/parameters/OrgId"), NameParam("oid")>>))
          @@ ("get" :> Operation("listOrgs", OkResponse(Ref("#/components/schemas/Widget"))))))
  @@
  ("/docs" :> Dict("post" :> Operation("createDoc", EmptyKV)))
  @@
  ("/scim/v2/Users" :> Dict("get" :> Operation("createDoc", EmptyKV)))
  @@
  ("/docs/{docId}/states/remove" :>
     Dict("post" :> Operation("removeStates",
            "responses" :> Dict("default" :> Dict("enum" :> List(<<None>>))))))

\* the paths of the documents that are merged
MergeKeys == DOMAIN PathPool \ {"/docs/{docId}/states/remove"}

OrgSchema ==
  Dict(("type" :> Str("object")) @@
       ("properties" :> Dict("plan" :> Dict(("enum" :> List(<<Str("free"), None>>)) @@
                                            ("nullable" :> Bool(FALSE))))))

WidgetSchema ==
  Dict(("type" :> Str("object")) @@
       ("enum" :> List(<<None, Dict("enum" :> List(<<None, Str("w")>>))>>)) @@
       ("properties" :> Dict("owner" :> Ref("#/components/schemas/Owner"))))

OfficialComponents ==
  Dict(("schemas" :> Dict("Org" :> Dict("type" :> Str("object")))) @@
       ("parameters" :> Dict("orgIdPathParam" :> NameParam("orgId"))))

ComprehensiveComponents ==
  Dict(("schemas" :> Dict(("Org" :> OrgSchema) @@ ("Widget" :> WidgetSchema) @@
                          ("Owner" :> Dict("type" :> Str("string"))))) @@
       ("parameters" :> Dict("OrgId" :> NameParam("oid"))))

DocKinds == {"bare", "official", "comprehensive"}

\* a document with the given paths; 'bare' has the paths section only
Doc(keys, kind) ==
  LET paths == "paths" :> Dict([k \in keys |-> PathPool[k]])
  IN CASE kind = "bare" -> Dict(paths)
       [] kind = "official" ->
            Dict(paths @@ ("components" :> OfficialComponents)
                 @@ ("servers" :> List(<<Dict("url" :> Str("https://{gristhost}/api")),
                                         Dict("url" :> Str("http://localhost:8484/api"))>>))
                 @@ ("tags" :> List(<<Tag("orgs", "Team sites"), Tag("scim", "SCIM"),
                                      Tag("forms", "Grist forms")>>)))
       [] kind = "comprehensive" ->
            Dict(paths @@ ("components" :> ComprehensiveComponents)
                 @@ ("servers" :> List(<<Dict(("enum" :> List(<<None>>)))>>))
                 @@ ("tags" :> List(<<>>)))

Docs ==
  {Doc(keys, kind) : keys \in {K \in SUBSET MergeKeys : Cardinality(K) <= MaxPaths},
                     kind \in DocKinds}

\* the orders in which a document can list the given keys
Orders(keys) ==
  {o \in [1..Cardinality(keys) -> keys] : \A i, j \in DOMAIN o : i # j => o[i] # o[j]}

----------------------------------------------------------------------------
(* Running the scripts on the two files *)

\* the scripts are run at most this many times in all
MaxRuns == 2

\* values of the variables a specification does not use
Idle == Str("")

Init ==
  /\ official \in Docs
  /\ comprehensive \in Docs
  /\ pathOrder \in Orders(DOMAIN comprehensive.kv["paths"].kv)
  /\ official0 = official
  /\ log = <<>>
  /\ path = "" /\ path0 = "" /\ pathObj = Idle /\ pathObj0 = Idle

\* python merge_schemas.py
Merge ==
  /\ Len(log) < MaxRuns
  /\ Has(comprehensive, "paths") /\ Has(official, "paths")
  /\ official' = merge_main(official, comprehensive, pathOrder)
  /\ log' = Append(log, "merge")
  /\ UNCHANGED <<comprehensive, pathOrder, official0, path, pathObj, path0, pathObj0>>

\* python fix_merged_schema.py
Fix ==
  /\ Len(log) < MaxRuns
  /\ official' = fix_main(official, comprehensive)
  /\ log' = Append(log, "fix")
  /\ UNCHANGED <<comprehensive, pathOrder, official0, path, pathObj, path0, pathObj0>>

Next == Merge \/ Fix

Spec == Init /\ [][Next]_vars

----------------------------------------------------------------------------
(* Vocabulary of the properties *)

Paths(doc) == doc.kv["paths"].kv

\* components.<category> of a document, empty when the document has none
Definitions(doc, category) == Get(Get(doc, "components"), category).kv

Categories == {"schemas", "parameters"}

Last(s) == s[Len(s)]

\* the strings found as the value of a $ref key anywhere in obj
RECURSIVE AllRefs(_)
AllRefs(obj) ==
  IF IsDict(obj)
  THEN UNION {IF key = "$ref" /\ IsStr(obj.kv[key]) THEN {obj.kv[key].s}
              ELSE AllRefs(obj.kv[key]) : key \in DOMAIN obj.kv}
  ELSE IF IsList(obj)
  THEN UNION {AllRefs(obj.items[i]) : i \in 1..Len(obj.items)}
  ELSE {}

Pointer(category, name) == "#/components/" \o category \o "/" \o name

Resolves(ref, doc) ==
  \E category \in Categories :
    \E name \in DOMAIN Definitions(doc, category) : ref = Pointer(category, name)

\* every reference pointer of the document resolves inside the document
Closed(doc) == \A ref \in AllRefs(doc) : Resolves(ref, doc)

\* some dict of obj has an enum list that holds None
RECURSIVE HasNullEnum(_)
HasNullEnum(obj) ==
  IF IsDict(obj)
  THEN \/ /\ Has(obj, "enum") /\ IsList(obj.kv["enum"])
          /\ \E i \in 1..Len(obj.kv["enum"].items) : obj.kv["enum"].items[i] = None
       \/ \E key \in DOMAIN obj.kv : HasNullEnum(obj.kv[key])
  ELSE IF IsList(obj)
  THEN \E i \in 1..Len(obj.items) : HasNullEnum(obj.items[i])
  ELSE FALSE

NoScimPath(doc) == \A k \in DOMAIN Paths(doc) : ~StartsWith(k, "/scim/")

NormalizedKeys(doc) == {normalize_path(k) : k \in DOMAIN Paths(doc)}

\* the document after merge_schemas.py then fix_merged_schema.py
MergeThenFix(target, source, order) ==
  fix_main(merge_main(target, source, order), source)

----------------------------------------------------------------------------
(* C4 *)

\* C4: after the merge the path keys of the target are its original keys
\* together with the normalized keys of the source, and every original key
\* still maps to the PathItem it had.
C4_PathsUnion ==
  log = <<"merge">> =>
    /\ DOMAIN Paths(official) = DOMAIN Paths(official0) \cup NormalizedKeys(comprehensive)
    /\ \A k \in DOMAIN Paths(official0) : Paths(official)[k] = Paths(official0)[k]

\* a merge that added a path and skipped a source path whose normalized key
\* the target already had with another PathItem
C4_Witness ==
  /\ log = <<"merge">>
  /\ DOMAIN Paths(official) # DOMAIN Paths(official0)
  /\ \E k \in DOMAIN Paths(comprehensive) :
       /\ normalize_path(k) \in DOMAIN Paths(official0)
       /\ Paths(official0)[normalize_path(k)] # Paths(comprehensive)[k]

----------------------------------------------------------------------------
(* C2 *)

\* C2 as stated: merging any document into itself leaves its paths and its
\* components as they were.
C2_SelfMergeAnyDocument ==
  (log = <<"merge">> /\ official0 = comprehensive) =>
    /\ Paths(official) = Paths(official0)
    /\ Get(official, "components") = Get(official0, "components")

\* C2 amended: merging a document into itself leaves its paths and its
\* components as they were when the normalized form of each of its path
\* keys is itself one of its path keys; the copy of missing components from
\* the source then adds nothing either.
C2_SelfMergeNormalized ==
  (/\ log = <<"merge">>
   /\ official0 = comprehensive
   /\ NormalizedKeys(official0) \subseteq DOMAIN Paths(official0)) =>
    /\ Paths(official) = Paths(official0)
    /\ Get(official, "components") = Get(official0, "components")
    /\ Get(copy_missing_components(official, comprehensive), "components")
         = Get(official0, "components")

\* a document merged into itself that holds a path in both conventions
C2_Witness ==
  /\ log = <<"merge">>
  /\ official0 = comprehensive
  /\ NormalizedKeys(official0) \subseteq DOMAIN Paths(official0)
  /\ \E k \in DOMAIN Paths(official0) : normalize_path(k) # k
  /\ Has(official0, "components")

----------------------------------------------------------------------------
(* C6 *)

----------------------------------------------------------------------------
(* C1 *)

\* C1: when every reference pointer of the target resolves in the target and
\* every reference pointer of the source resolves in the source, then after
\* the merge and the copy of missing components every reference pointer under
\* a path of the merged document names a Definition of the merged document.
C1_RefsResolve ==
  (/\ log = <<"merge", "fix">>
   /\ Closed(official0)
   /\ Closed(comprehensive)) =>
    \A ref \in AllRefs(Get(official, "paths")) : Resolves(ref, official)

----------------------------------------------------------------------------
(* C8 *)

OperationIds == {"listOrgs", "createDoc", "removeStates", "createOrImportDoc"}

UniqueOperationIds(doc) == \A id \in OperationIds : OperationCount(doc, id) <= 1

\* C8: when no operationId occurs twice in the target nor twice in the
\* source, then after the merge, and after the fixup that follows it, no
\* operationId occurs twice in the merged document.
C8_UniqueOperationIds ==
  (/\ log \in {<<"merge">>, <<"merge", "fix">>}
   /\ UniqueOperationIds(official0)
   /\ UniqueOperationIds(comprehensive)) =>
    UniqueOperationIds(official)

----------------------------------------------------------------------------
(* The five repairs of fix_merged_schema.py taken one at a time *)

FixDocs == {Doc(keys, kind) : keys \in SUBSET DOMAIN PathPool, kind \in DocKinds}

Repairs == {"servers", "responses", "scim", "enum", "operationId"}

Applied == {log[i] : i \in DOMAIN log}

FixInit ==
  /\ official \in FixDocs
  /\ comprehensive = Doc({}, "bare")
  /\ pathOrder = <<>>
  /\ official0 = official
  /\ log = <<>>
  /\ path = "" /\ path0 = "" /\ pathObj = Idle /\ pathObj0 = Idle

Repair(name, result) ==
  /\ name \notin Applied
  /\ official' = result
  /\ log' = Append(log, name)
  /\ UNCHANGED <<comprehensive, pathOrder, official0, path, pathObj, path0, pathObj0>>

FixServers == Repair("servers", fix_servers(official))

FixResponses == Repair("responses", fix_responses(official))

RemoveScim == Repair("scim", remove_scim(official))

FixNullEnums == Repair("enum", fix_null_enums(official))

FixOperationId == Repair("operationId", fix_operation_id(official))

FixNext == FixServers \/ FixResponses \/ RemoveScim \/ FixNullEnums \/ FixOperationId

FixSpec == FixInit /\ [][FixNext]_vars

----------------------------------------------------------------------------
(* C5 *)

\* C5: whatever the order in which the five repairs were applied, the
\* document is the one the repairs give in the order of the code.
C5_RepairsCommute ==
  Applied = Repairs => official = fix_repairs(official0)

\* all five repairs applied, none in the place the code gives it, to a
\* document that each of them changes
C5_Witness ==
  /\ Applied = Repairs
  /\ log = <<"operationId", "enum", "servers", "responses", "scim">>
  /\ fix_servers(official0) # official0
  /\ fix_responses(official0) # official0
  /\ remove_scim(official0) # official0
  /\ fix_null_enums(official0) # official0
  /\ fix_operation_id(official0) # official0
  /\ ~NoScimPath(official0)

----------------------------------------------------------------------------
(* C7 *)

NonNull(items) == SelectSeq(items, LAMBDA v : v # None)

EnumHoldsNull(obj) ==
  /\ Has(obj, "enum") /\ IsList(obj.kv["enum"])
  /\ \E i \in 1..Len(obj.kv["enum"].items) : obj.kv["enum"].items[i] = None

\* after is before with every enum that held null repaired, at every depth
RECURSIVE EnumRepaired(_, _)
EnumRepaired(before, after) ==
  IF IsDict(before)
  THEN /\ IsDict(after)
       /\ DOMAIN after.kv = DOMAIN before.kv \cup
            (IF EnumHoldsNull(before) THEN {"nullable"} ELSE {})
       /\ \A key \in DOMAIN before.kv :
            IF key = "enum" /\ EnumHoldsNull(before)
            THEN /\ IsList(after.kv[key])
                 /\ Len(after.kv[key].items) = Len(NonNull(before.kv[key].items))
                 /\ \A i \in 1..Len(after.kv[key].items) :
                      EnumRepaired(NonNull(before.kv[key].items)[i], after.kv[key].items[i])
            ELSE EnumRepaired(before.kv[key], after.kv[key])
       /\ (EnumHoldsNull(before) /\ ~Has(before, "nullable")) =>
            after.kv["nullable"] = Bool(TRUE)
  ELSE IF IsList(before)
  THEN /\ IsList(after)
       /\ Len(after.items) = Len(before.items)
       /\ \A i \in 1..Len(before.items) : EnumRepaired(before.items[i], after.items[i])
  ELSE after = before

\* C7: the enum repair removes the nulls of every enum at every depth,
\* keeps the other values in order, sets nullable where it was not declared
\* and keeps it where it was, and a second application changes nothing.
C7_EnumRepair ==
  [][log' = Append(log, "enum") =>
       /\ EnumRepaired(official, official')
       /\ ~HasNullEnum(official')
       /\ fix_null_enums(official') = official']_vars

\* the repair applied to a document that has a null enum nested in a null
\* enum and a null enum with a declared nullable
C7_Witness ==
  /\ log = <<"enum">>
  /\ official # official0
  /\ \E name \in DOMAIN Definitions(official0, "schemas") :
       LET def == Definitions(official0, "schemas")[name]
       IN /\ EnumHoldsNull(def)
          /\ \E i \in 1..Len(def.kv["enum"].items) : HasNullEnum(def.kv["enum"].items[i])
  /\ \E name \in DOMAIN Definitions(official0, "schemas") :
       LET def == Definitions(official0, "schemas")[name]
       IN /\ Has(def, "properties")
          /\ \E prop \in DOMAIN def.kv["properties"].kv :
               /\ EnumHoldsNull(def.kv["properties"].kv[prop])
               /\ Has(def.kv["properties"].kv[prop], "nullable")
               /\ Definitions(official, "schemas")[name].kv["properties"].kv[prop].kv["nullable"]
                    = Bool(FALSE)

----------------------------------------------------------------------------
(* The Path Normalizer and the Reference Rewriter on their own *)

\* a path string is made of at most this many pieces
MaxPieces == 3

\* each function is applied at most this many times in all
MaxCalls == 2

Pieces == {"/api", "/orgs", "/{oid}", "/{docId}", "api", "keys", "/"}

RECURSIVE Concat(_)
Concat(pieces) == IF pieces = <<>> THEN "" ELSE Head(pieces) \o Concat(Tail(pieces))

PathStrings == {Concat(ps) : ps \in UNION {[1..n -> Pieces] : n \in 1..MaxPieces}}

PathItems ==
  { PathPool["/api/orgs/{oid}"],
    PathPool["/orgs"],
    Dict(("parameters" :> List(<<NameParam("uid"), NameParam("docId"),
                                 Ref("#/components/parameters/OrgIdFoo")>>)) @@
         ("get" :> Operation("getDoc",
                     ("parameters" :> List(<<NameParam("oid"),
                                             Ref("#/components/schemas/OrgId")>>)) @@
                     ("$ref" :> List(<<Ref("#/components/parameters/UserId"),
                                       Ref("#/components/parameters/DocId")>>))))),
    Dict("parameters" :> Dict("name" :> Str("oid"))) }

NormInit ==
  /\ path \in PathStrings
  /\ pathObj \in PathItems
  /\ path0 = path
  /\ pathObj0 = pathObj
  /\ log = <<>>
  /\ official = Doc({}, "bare") /\ official0 = Doc({}, "bare")
  /\ comprehensive = Doc({}, "bare") /\ pathOrder = <<>>

NormalizePath ==
  /\ Len(log) < MaxCalls
  /\ path' = normalize_path(path)
  /\ log' = Append(log, "normalize_path")
  /\ UNCHANGED <<official, comprehensive, pathOrder, official0, pathObj, path0, pathObj0>>

ConvertParamNames ==
  /\ Len(log) < MaxCalls
  /\ pathObj' = convert_param_names_in_path(pathObj)
  /\ log' = Append(log, "convert_param_names_in_path")
  /\ UNCHANGED <<official, comprehensive, pathOrder, official0, path, path0, pathObj0>>

ConvertParamRefs ==
  /\ Len(log) < MaxCalls
  /\ pathObj' = convert_param_refs(pathObj)
  /\ log' = Append(log, "convert_param_refs")
  /\ UNCHANGED <<official, comprehensive, pathOrder, official0, path, path0, pathObj0>>

NormNext == NormalizePath \/ ConvertParamNames \/ ConvertParamRefs

NormSpec == NormInit /\ [][NormNext]_vars

----------------------------------------------------------------------------
(* C3 *)

\* the names declared by the 'parameters' list of a PathItem
DeclaredNames(item) ==
  IF Has(item, "parameters") /\ IsList(item.kv["parameters"])
  THEN {p.kv["name"].s : p \in {q \in {item.kv["parameters"].items[i] :
                                         i \in 1..Len(item.kv["parameters"].items)} :
                                  Has(q, "name") /\ IsStr(q.kv["name"])}}
  ELSE {}

\* C3: normalizing a path that holds {oid} gives a path that holds {orgId}
\* and no {oid}, normalizing a PathItem that declares oid gives one that
\* declares orgId, and normalizing a second time changes neither the path
\* string nor the PathItem.
C3_NormalizeIdempotent ==
  /\ (log = <<"normalize_path">> /\ Contains(path0, "{oid}")) =>
       (Contains(path, "{orgId}") /\ ~Contains(path, "{oid}"))
  /\ (log = <<"convert_param_names_in_path">> /\ "oid" \in DeclaredNames(pathObj0)) =>
       ("orgId" \in DeclaredNames(pathObj) /\ "oid" \notin DeclaredNames(pathObj))
  /\ log = <<"normalize_path", "normalize_path">> => path = normalize_path(path0)
  /\ log = <<"convert_param_names_in_path", "convert_param_names_in_path">> =>
       pathObj = convert_param_names_in_path(pathObj0)

----------------------------------------------------------------------------
(* C9 *)

\* p has a segment that is exactly /api
HasApiSegment(p) ==
  \E i \in 1..(Len(p) - 3) :
    /\ SubSeq(p, i, i + 3) = "/api"
    /\ (i + 3 = Len(p) \/ SubSeq(p, i + 4, i + 4) = "/")

HasOldToken(p) ==
  \E i \in 1..Len(param_replacements) : Contains(p, param_replacements[i][1])

\* C9: for a path without a double slash the normalized path has no /api
\* segment and no double slash, and a path without /api segment and without
\* a token of the rename table is returned as it is.
C9_PrefixStripped ==
  (log = <<"normalize_path">> /\ ~Contains(path0, "//")) =>
    /\ ~HasApiSegment(path)
    /\ ~Contains(path, "//")
    /\ (~HasApiSegment(path0) /\ ~HasOldToken(path0)) => path = path0

----------------------------------------------------------------------------
(* C10 *)

\* the pointer with its definition name renamed when the pointer is a
\* parameters pointer whose name is exactly a key of the table
RECURSIVE RenamedPointer(_, _)
RenamedPointer(value, table) ==
  IF table = <<>> THEN value
  ELSE IF value = Pointer("parameters", table[1][1])
  THEN Pointer("parameters", table[1][2])
  ELSE RenamedPointer(value, Tail(table))

RECURSIVE RenamedExactly(_)
RenamedExactly(obj) ==
  IF IsDict(obj)
  THEN Dict([key \in DOMAIN obj.kv |->
               IF key = "$ref" /\ IsStr(obj.kv[key])
               THEN Str(RenamedPointer(obj.kv[key].s, param_map))
               ELSE RenamedExactly(obj.kv[key])])
  ELSE IF IsList(obj)
  THEN List([i \in 1..Len(obj.items) |-> RenamedExactly(obj.items[i])])
  ELSE obj

\* C10: the rewritten tree is the input tree with the same keys, lengths
\* and scalars, except that every parameters pointer whose definition name
\* is exactly a key of the rename table names the table's value instead.
C10_ExactRename ==
  log = <<"convert_param_refs">> => pathObj = RenamedExactly(pathObj0)

====
